---- MODULE Spec2Model ----
(***************************************************************************)
(* rescom: the resource compiler's run (main.cpp), the legacy C++ code     *)
(* generator (LegacyCppCodeGenerator.cpp) and the behaviour of the header  *)
(* it generates (the lookup functions emitted by writeAccessFunction).     *)
(*                                                                         *)
(* A key is a sequence of character codes; a file is a sequence of bytes   *)
(* 0..255; the generated document is a sequence of declarations, each a    *)
(* record [kind, name, body] in emission order.  Numbers written to the    *)
(* stream are kept as their digit text and parsed back where the generated *)
(* header reads them.                                                      *)
(***************************************************************************)
EXTENDS Integers, Sequences, FiniteSets, TLC

VARIABLES
    argv,           \* command line: [input, output, generator, version, unknown]
    configFile,     \* the configuration file: [readable, inputs]
    disk,           \* disk[p]: bytes of the file at path p, or Missing
    pc,             \* position in main / generate
    inputs,         \* _configuration.inputs
    cfgRead,        \* the configuration file has been opened for reading
    loads,          \* number of input files loadFile tried to open
    i,              \* loop index of writeResources' data loop
    buffer,         \* the reused std::vector<char> of writeResources
    basefield,      \* outputStream's basefield flag: "dec" or "hex"
    outputStream,   \* main's std::ostringstream
    stdout,         \* what was written to std::cout
    outputFile,     \* what was written to the file of option output
    stderr,         \* error message reported by main
    exitCode,       \* -1 while running, then main's return value
    lpc,            \* position in the generated getResource / lowerBound
    value,          \* queried key
    first,          \* lowerBound's first (zero-based table position)
    count,          \* lowerBound's count
    derefs,         \* table positions whose key field the current call has read
    result          \* address returned by getResource

vars == <<argv, configFile, disk, pc, inputs, cfgRead, loads, i, buffer,
          basefield, outputStream, stdout, outputFile, stderr, exitCode,
          lpc, value, first, count, derefs, result>>

mainVars == <<pc, inputs, cfgRead, loads, i, buffer, basefield, outputStream,
              stdout, outputFile, stderr, exitCode>>
envVars == <<argv, configFile, disk>>
lookupVars == <<lpc, value, first, count, derefs, result>>

----------------------------------------------------------------------------
(* Bounds *)

\* longest key of the lookup worlds
MaxKeyLen == 2
\* most inputs of a lookup world (strictly ascending keys)
MaxInputs == 3
\* most inputs of a generation world (any key order, any files)
MaxGenInputs == 2

\* character codes keys are made of ('a', 'b')
KeyChars == {97, 98}
\* keys of the generation worlds
GenKeys == {<<97>>, <<98>>}
\* file contents of the generation worlds: empty; a zero byte, a one-digit hex
\* value and 0xff (the byte worlds below go through every byte value)
FileContents == {<<>>, <<0, 10, 255>>}
\* declared sizes of the generation worlds (26 is "1a" in hex)
DeclaredSizes == {0, 26}
\* generator names given on the command line; only "legacy" is registered
GeneratorNames == {"legacy", "bogus"}
\* output paths given on the command line; only the first can be opened
OutputPaths == {"out.hpp", "/nodir/out.hpp"}

Null == <<-1>>            \* the null pointer, as a key
Missing == <<-1>>         \* a path that cannot be opened
NoOption == "<none>"      \* option absent from the command line
InputPath == "res.rescom" \* the configuration file named by option input
AbortStatus == 134        \* exit status of a process ended by std::terminate
NullResourceAddr == -1    \* address of details::NullResource
Invalid == -1             \* a literal the generated header cannot hold

----------------------------------------------------------------------------
(* Text helpers *)

Digits == <<"0", "1", "2", "3", "4", "5", "6", "7", "8", "9",
            "a", "b", "c", "d", "e", "f">>

Radix(base) == IF base = "hex" THEN 16 ELSE 10

\* operator<<(unsigned) under the stream's basefield: no padding, no prefix
RECURSIVE FormatUInt(_, _)
FormatUInt(n, base) ==
    IF n < Radix(base) THEN <<Digits[n + 1]>>
    ELSE FormatUInt(n \div Radix(base), base) \o <<Digits[(n % Radix(base)) + 1]>>

DigitValue(d) == CHOOSE v \in 0..15 : Digits[v + 1] = d

\* value of a digit text read in the given radix; Invalid when a digit is not
\* one of the radix
RECURSIVE ParseUInt(_, _)
ParseUInt(text, radix) ==
    IF text = <<>> THEN 0
    ELSE LET hi == ParseUInt(SubSeq(text, 1, Len(text) - 1), radix)
             d == DigitValue(text[Len(text)])
         IN IF hi = Invalid \/ d >= radix THEN Invalid ELSE hi * radix + d

\* std::vector<char> element for a file byte (char is signed)
ToChar(b) == IF b >= 128 THEN b - 256 ELSE b
\* static_cast<unsigned char>(c); the further cast to unsigned int keeps the
\* value, which is in 0..255
ToUnsignedChar(c) == c % 256

\* std::string_view operator< : lexicographic on unsigned character values,
\* a proper prefix is smaller
RECURSIVE LexLess(_, _)
LexLess(s, t) ==
    IF t = <<>> THEN FALSE
    ELSE IF s = <<>> THEN TRUE
    ELSE IF s[1] # t[1] THEN s[1] < t[1]
    ELSE LexLess(Tail(s), Tail(t))

\* std::strcmp(a, b) == 0
StrEqual(a, b) == a = b

----------------------------------------------------------------------------
(* Worlds: command line, configuration file and disk *)

Keys == UNION {[1..n -> KeyChars] : n \in 0..MaxKeyLen}

\* the command lines: the four options of main, each given or not, and
\* whether an option main does not declare is given too
CommandLines ==
    [input : {InputPath, NoOption}, output : OutputPaths \cup {NoOption},
     generator : GeneratorNames \cup {NoOption}, version : BOOLEAN,
     unknown : BOOLEAN]

\* rescom -i res.rescom
DefaultCommandLine ==
    [input |-> InputPath, output |-> NoOption, generator |-> NoOption,
     version |-> FALSE, unknown |-> FALSE]

\* the keys of a list ascend strictly
Ascends(ks) == \A a, b \in 1..Len(ks) : a < b => LexLess(ks[a], ks[b])

\* a lookup world: strictly ascending keys, every file present, default options
LookupWorld(ks) ==
    [argv |-> DefaultCommandLine,
     configFile |-> [readable |-> TRUE,
                     inputs |-> [j \in 1..Len(ks) |->
                                   [key |-> ks[j], filePath |-> j, size |-> 1]]],
     disk |-> [j \in 1..Len(ks) |-> <<j>>]]

\* a generation world: keys in any order (duplicates too), declared sizes that
\* need not match the files, files that may be missing, default options
GenWorld(ks, sz, d) ==
    [argv |-> DefaultCommandLine,
     configFile |-> [readable |-> TRUE,
                     inputs |-> [j \in 1..Len(ks) |->
                                   [key |-> ks[j], filePath |-> j, size |-> sz[j]]]],
     disk |-> d]

\* a command-line world: any command line, n inputs with empty files
CommandWorld(a, n) ==
    [argv |-> a,
     configFile |-> [readable |-> TRUE,
                     inputs |-> [j \in 1..n |->
                                   [key |-> <<97, 96 + j>>, filePath |-> j, size |-> 0]]],
     disk |-> [j \in 1..n |-> <<>>]]

\* a byte world: one input whose file is the single byte b
ByteWorld(b) ==
    [argv |-> DefaultCommandLine,
     configFile |-> [readable |-> TRUE,
                     inputs |-> <<[key |-> <<97>>, filePath |-> 1, size |-> 1]>>],
     disk |-> <<<<b>>>>]

\* a world whose configuration file cannot be read
UnreadableWorld(a) ==
    [argv |-> a, configFile |-> [readable |-> FALSE, inputs |-> <<>>], disk |-> <<>>]

World(w) ==
    /\ argv = w.argv
    /\ configFile = w.configFile
    /\ disk = w.disk

Init ==
    /\ \/ \E n \in 0..MaxInputs : \E ks \in [1..n -> Keys] :
             Ascends(ks) /\ World(LookupWorld(ks))
       \/ \E n \in 0..MaxGenInputs :
             \E ks \in [1..n -> GenKeys], sz \in [1..n -> DeclaredSizes],
                d \in [1..n -> FileContents \cup {Missing}] :
                 World(GenWorld(ks, sz, d))
       \/ \E n \in 0..MaxGenInputs : \E a \in CommandLines :
             World(CommandWorld(a, n))
       \/ \E b \in 0..255 : World(ByteWorld(b))
       \/ \E a \in CommandLines : World(UnreadableWorld(a))
    /\ pc = "options"
    /\ inputs = <<>>
    /\ cfgRead = FALSE
    /\ loads = 0
    /\ i = 0
    /\ buffer = <<>>
    /\ basefield = "dec"
    /\ outputStream = <<>>
    /\ stdout = <<>>
    /\ outputFile = <<>>
    /\ stderr = <<>>
    /\ exitCode = -1
    /\ lpc = "idle"
    /\ value = Null
    /\ first = 0
    /\ count = 0
    /\ derefs = {}
    /\ result = NullResourceAddr

----------------------------------------------------------------------------
(* main *)

Decl(kind, name, body) == [kind |-> kind, name |-> name, body |-> body]

\* the catch block of main: report, return 1
Fail(message) ==
    /\ stderr' = <<"Rescom error: ">> \o message
    /\ exitCode' = 1
    /\ pc' = "exit"

\* an exception thrown outside main's try block: std::terminate, no report
Abort ==
    /\ exitCode' = AbortStatus
    /\ pc' = "exit"

\* options.parse(argc, argv): an option that is not declared throws
ParseOptions ==
    /\ pc = "options"
    /\ IF argv.unknown THEN Abort ELSE pc' = "version" /\ UNCHANGED exitCode
    /\ UNCHANGED <<inputs, cfgRead, loads, i, buffer, basefield, outputStream,
                   stdout, outputFile, stderr>>
    /\ UNCHANGED <<envVars, lookupVars>>

\* the version branch of main, then the read of option input
VersionOrInput ==
    /\ pc = "version"
    /\ IF argv.version
       THEN /\ stdout' = stdout \o <<Decl("version", "rescom version", <<>>)>>
            /\ exitCode' = 0
            /\ pc' = "exit"
       ELSE /\ IF argv.input = NoOption
               THEN Abort
               ELSE pc' = "parse" /\ UNCHANGED exitCode
            /\ UNCHANGED stdout
    /\ UNCHANGED <<inputs, cfgRead, loads, i, buffer, basefield, outputStream,
                   outputFile, stderr>>
    /\ UNCHANGED <<envVars, lookupVars>>

\* the final output location: the file of option output, std::cout without it
Target == IF argv.output = NoOption THEN stdout ELSE outputFile

SetTarget(text) ==
    IF argv.output = NoOption
    THEN stdout' = text /\ UNCHANGED outputFile
    ELSE outputFile' = text /\ UNCHANGED stdout

\* the stream main hands to generate()
GenerateSink_direct == "target"
GenerateSink == "outputStream"

\* output << items, on the stream generate() was given
Write(items) ==
    IF GenerateSink = "outputStream"
    THEN outputStream' = outputStream \o items /\ UNCHANGED <<stdout, outputFile>>
    ELSE SetTarget(Target \o items) /\ outputStream' = outputStream

\* ConfigurationParser::parseFile
ParseFile ==
    /\ pc = "parse"
    /\ cfgRead' = TRUE
    /\ IF ~configFile.readable
       THEN /\ Fail(<<"unable to read configuration">>)
            /\ UNCHANGED inputs
       ELSE /\ inputs' = configFile.inputs
            /\ pc' = "create"
            /\ UNCHANGED <<stderr, exitCode>>
    /\ UNCHANGED <<loads, i, buffer, basefield, outputStream, stdout, outputFile>>
    /\ UNCHANGED <<envVars, lookupVars>>

\* the registry after registerCodeGenerators(): "legacy", flagged default
Registered == {"legacy"}
NotFound == "<not found>"
InstanciateDefaultCodeGenerator == "legacy"
InstanciateCodeGenerator(name) == IF name \in Registered THEN name ELSE NotFound

CreateGenerator_ignoreName(option) == InstanciateDefaultCodeGenerator
CreateGenerator(option) ==
    IF option = NoOption
    THEN InstanciateDefaultCodeGenerator
    ELSE InstanciateCodeGenerator(option)

SelectGenerator ==
    /\ pc = "create"
    /\ IF CreateGenerator(argv.generator) = NotFound
       THEN Fail(<<"generator not found: ", argv.generator>>)
       ELSE pc' = "header" /\ UNCHANGED <<stderr, exitCode>>
    /\ UNCHANGED <<inputs, cfgRead, loads, i, buffer, basefield, outputStream, stdout, outputFile>>
    /\ UNCHANGED <<envVars, lookupVars>>

ReleaseResults ==
    /\ pc = "release"
    /\ IF argv.output # NoOption /\ argv.output # "out.hpp"
       THEN /\ Fail(<<"unable to open for writing: ", argv.output>>)
            /\ UNCHANGED <<stdout, outputFile>>
       ELSE /\ SetTarget(Target \o outputStream)
            /\ exitCode' = 0
            /\ pc' = "exit"
            /\ UNCHANGED stderr
    /\ UNCHANGED <<inputs, cfgRead, loads, i, buffer, basefield, outputStream>>
    /\ UNCHANGED <<envVars, lookupVars>>

----------------------------------------------------------------------------
(* LegacyCppCodeGenerator *)

WriteFileHeader ==
    /\ pc = "header"
    /\ Write(<<Decl("struct", "Resource", <<"key", "bytes", "size">>)>>)
    /\ pc' = "resources"
    /\ UNCHANGED <<inputs, cfgRead, loads, i, buffer, basefield, stderr, exitCode>>
    /\ UNCHANGED <<envVars, lookupVars>>

MakeResourceName_constant(n) == "R0"
MakeResourceName(n) == "R" \o ToString(n)

\* buffer.assign(file begin, file end)
LoadFile_append(old, file) == old \o [j \in 1..Len(file) |-> ToChar(file[j])]
LoadFile(old, file) == [j \in 1..Len(file) |-> ToChar(file[j])]

\* the array declaration for one input; every element is the text after '\x
WriteResource(inputPosition, bytes) ==
    Decl("array", MakeResourceName(inputPosition),
         [j \in 1..Len(bytes) |->
            FormatUInt(ToUnsignedChar(bytes[j]), "hex")])

\* writeResources up to the data loop
WriteResourcesBegin ==
    /\ pc = "resources"
    /\ IF inputs = <<>>
       THEN /\ pc' = "access"
            /\ UNCHANGED <<outputStream, stdout, outputFile, buffer, i>>
       ELSE /\ buffer' = <<>>
            /\ Write(<<Decl("count", "ResourcesCount",
                            FormatUInt(Len(inputs), basefield))>>)
            /\ i' = 0
            /\ pc' = "data"
    /\ UNCHANGED <<inputs, cfgRead, loads, basefield, stderr, exitCode>>
    /\ UNCHANGED <<envVars, lookupVars>>

\* one iteration of the data loop: loadFile, then writeResource
WriteResourcesData ==
    /\ pc = "data"
    /\ i < Len(inputs)
    /\ loads' = loads + 1
    /\ LET file == disk[inputs[i + 1].filePath]
       IN IF file = Missing
          THEN /\ Fail(<<"unable to read ", inputs[i + 1].filePath>>)
               /\ UNCHANGED <<i, buffer, basefield, outputStream, stdout, outputFile>>
          ELSE /\ buffer' = LoadFile(buffer, file)
               /\ Write(<<WriteResource(i, buffer')>>)
               /\ basefield' = "dec"
               /\ i' = i + 1
               /\ UNCHANGED <<pc, stderr, exitCode>>
    /\ UNCHANGED <<inputs, cfgRead>>
    /\ UNCHANGED <<envVars, lookupVars>>

IndexEntry_loadedSize(input, position, bytes, base) ==
    [key |-> input.key, size |-> FormatUInt(Len(bytes), base),
     bytes |-> MakeResourceName(position)]
\* one line of the index table
IndexEntry(input, position, bytes, base) ==
    [key |-> input.key, size |-> FormatUInt(input.size, base),
     bytes |-> MakeResourceName(position)]

IndexEntries_byKey(list, bytes, base) ==
    LET order == CHOOSE f \in [1..Len(list) -> 1..Len(list)] :
                    /\ \A a, b \in 1..Len(list) : a # b => f[a] # f[b]
                    /\ \A a, b \in 1..Len(list) :
                          a < b => ~LexLess(list[f[b]].key, list[f[a]].key)
    IN [j \in 1..Len(list) |-> IndexEntry(list[order[j]], j - 1, bytes, base)]
\* the lines of the index table, in the order of the input list
IndexEntries(list, bytes, base) ==
    [j \in 1..Len(list) |-> IndexEntry(list[j], j - 1, bytes, base)]

\* writeResources after the data loop: the index table
WriteResourcesIndex ==
    /\ pc = "data"
    /\ i = Len(inputs)
    /\ Write(<<Decl("table", "ResourcesIndex", IndexEntries(inputs, buffer, basefield))>>)
    /\ pc' = "access"
    /\ UNCHANGED <<inputs, cfgRead, loads, i, buffer, basefield, stderr, exitCode>>
    /\ UNCHANGED <<envVars, lookupVars>>

\* the body writeAccessFunction picks for getResource, begin and end
AccessVariant_alwaysSearch(list) == "search"
AccessVariant(list) == IF list = <<>> THEN "constant" ELSE "search"

\* the declarations of the search, emitted for a non-empty list only
SearchDecls(list) ==
    IF list = <<>> THEN <<>>
    ELSE <<Decl("function", "compareSlot", <<>>),
           Decl("function", "lowerBound", <<>>)>>

WriteAccessFunction ==
    /\ pc = "access"
    /\ Write(SearchDecls(inputs) \o
             <<Decl("object", "NullResource", <<>>),
               Decl("function", "getResource", <<AccessVariant(inputs)>>),
               Decl("function", "contains", <<>>),
               Decl("function", "getText", <<>>),
               Decl("function", "begin", <<AccessVariant(inputs)>>),
               Decl("function", "end", <<AccessVariant(inputs)>>)>>)
    /\ pc' = "footer"
    /\ UNCHANGED <<inputs, cfgRead, loads, i, buffer, basefield, stderr, exitCode>>
    /\ UNCHANGED <<envVars, lookupVars>>

WriteFileFooter ==
    /\ pc = "footer"
    /\ Write(<<Decl("footer", "", <<>>)>>)
    /\ pc' = "release"
    /\ UNCHANGED <<inputs, cfgRead, loads, i, buffer, basefield, stderr, exitCode>>
    /\ UNCHANGED <<envVars, lookupVars>>

Generate ==
    \/ WriteFileHeader
    \/ WriteResourcesBegin
    \/ WriteResourcesData
    \/ WriteResourcesIndex
    \/ WriteAccessFunction
    \/ WriteFileFooter

----------------------------------------------------------------------------
(* The generated header, as a program reads it once main released it *)

Header == Target

\* main returned 0 after releaseResults wrote the generated header
HeaderReleased == pc = "exit" /\ exitCode = 0 /\ ~argv.version

Has(name) == \E j \in 1..Len(Header) : Header[j].name = name
Named(name) == Header[CHOOSE j \in 1..Len(Header) : Header[j].name = name]

\* ResourcesIndex[ResourcesCount]: the records of the table, zero-based
ResourcesCount == ParseUInt(Named("ResourcesCount").body, 10)
Slot(position) == Named("ResourcesIndex").body[position + 1]

\* compareSlot: std::string_view(slot.key) < key
CompareSlot(slot, key) == LexLess(slot.key, key)

\* the body of lowerBound's loop, for the outcome of compare(*it, value)
LoopBody_keepFirst(f, c, less) ==
    LET step == c \div 2
    IN IF less THEN [first |-> f + step, count |-> c - (step + 1)]
       ELSE [first |-> f, count |-> step]
LoopBody(f, c, less) ==
    LET step == c \div 2
    IN IF less THEN [first |-> (f + step) + 1, count |-> c - (step + 1)]
       ELSE [first |-> f, count |-> step]

\* what reading the key of the record one past the table's end can do: the
\* bytes there are no Resource of the table, so the read gives a null key, some
\* other string (lowerBound then returns first or last, both the end), or faults
PastTheEndOutcomes == {"returned", "fault"}

\* a call getResource(key) begins; lowerBound runs up to its loop (a call
\* depends on nothing an earlier call left behind, so one call is followed)
GetResource ==
    /\ HeaderReleased
    /\ lpc = "idle"
    /\ \E key \in Keys \cup {Null} :
          /\ value' = key
          /\ derefs' = {}
          /\ result' = NullResourceAddr
          /\ first' = 0
          /\ IF Named("getResource").body[1] = "constant"
             THEN lpc' = "returned" /\ count' = 0
             ELSE IF ~(Has("ResourcesIndex") /\ Has("lowerBound"))
             THEN lpc' = "ill-formed" /\ count' = 0
             ELSE IF key = Null
             THEN lpc' = "returned" /\ count' = 0
             ELSE lpc' = "loop" /\ count' = ResourcesCount
    /\ UNCHANGED <<envVars, mainVars>>

\* one iteration of lowerBound's while loop
LowerBoundLoop ==
    /\ lpc = "loop"
    /\ count > 0
    /\ LET it == first + (count \div 2)
           next == LoopBody(first, count, CompareSlot(Slot(it), value))
       IN /\ derefs' = derefs \cup {it}
          /\ first' = next.first
          /\ count' = next.count
    /\ UNCHANGED <<lpc, value, result>>
    /\ UNCHANGED <<envVars, mainVars>>

\* lowerBound's return statement, then the rest of getResource
LowerBoundReturn ==
    /\ lpc = "loop"
    /\ count = 0
    /\ derefs' = derefs \cup {first}
    /\ IF first < ResourcesCount
       THEN /\ result' = IF Slot(first).key # Null /\ StrEqual(value, Slot(first).key)
                         THEN first
                         ELSE NullResourceAddr
            /\ lpc' = "returned"
       ELSE /\ result' = NullResourceAddr
            /\ lpc' \in PastTheEndOutcomes
    /\ UNCHANGED <<value, first, count>>
    /\ UNCHANGED <<envVars, mainVars>>

\* contains(key), from the address getResource returned
Contains(address) == address # NullResourceAddr

\* getText(key): std::string_view{resource.bytes, resource.size}
GetText(address) ==
    IF address = NullResourceAddr
    THEN [bytes |-> "nullptr", size |-> 0]
    ELSE [bytes |-> Slot(address).bytes, size |-> ParseUInt(Slot(address).size, 10)]

\* begin() and end()
Begin ==
    IF Named("begin").body[1] = "constant" THEN NullResourceAddr ELSE 0
End ==
    IF Named("end").body[1] = "constant" THEN NullResourceAddr ELSE ResourcesCount

\* the records a loop from begin() to end() visits
RECURSIVE Visit(_, _)
Visit(from, to) ==
    IF from = to THEN <<>> ELSE <<Slot(from)>> \o Visit(from + 1, to)
Traversal == Visit(Begin, End)

\* the bytes an array initialiser holds: one char per '\x element, Invalid for
\* an element that does not fit a char
DecodeArray(body) ==
    [j \in 1..Len(body) |->
        LET v == ParseUInt(body[j], 16)
        IN IF v = Invalid \/ v > 255 THEN Invalid ELSE v]

\* the bytes of the array a record's bytes field names
ArrayBytes(name) == DecodeArray(Named(name).body)

Lookup == GetResource \/ LowerBoundLoop \/ LowerBoundReturn

Next ==
    \/ ParseOptions
    \/ VersionOrInput
    \/ ParseFile
    \/ SelectGenerator
    \/ Generate
    \/ ReleaseResults
    \/ Lookup

Spec == Init /\ [][Next]_vars

----------------------------------------------------------------------------
(* Properties *)

\* the input list has strictly ascending (hence pairwise distinct) keys
StrictlyAscending ==
    \A a, b \in 1..Len(inputs) : a < b => LexLess(inputs[a].key, inputs[b].key)

\* a call of getResource has ended, by returning or by faulting
CallEnded == HeaderReleased /\ lpc \in {"returned", "fault", "ill-formed"}

\* the text of a document that generate() wrote
Generated(doc) == SelectSeq(doc, LAMBDA d : d.kind # "version")

\* the array declarations of a document, in emission order
Arrays(doc) == SelectSeq(doc, LAMBDA d : d.kind = "array")
\* the index tables of a document
Tables(doc) == SelectSeq(doc, LAMBDA d : d.kind = "table")

\* C1: for a table with strictly ascending keys, getResource(k) returns the
\* record whose key equals k when there is one, and the sentinel NullResource
\* for every absent k and for the null key.
C1_GetResourceFindsExactKey ==
    (CallEnded /\ StrictlyAscending) =>
        /\ lpc = "returned"
        /\ IF \E p \in 1..Len(inputs) : inputs[p].key = value
           THEN result # NullResourceAddr /\ Slot(result).key = value
           ELSE result = NullResourceAddr

\* C2: with an empty input list no table, count, predicate or search function
\* is emitted; getResource returns the sentinel for every key, contains is
\* false, getText is a zero-length view, and begin() equals end(), both the
\* sentinel's address.
C2_EmptyInputConstants ==
    (HeaderReleased /\ inputs = <<>>) =>
        /\ ~Has("ResourcesIndex") /\ ~Has("ResourcesCount")
        /\ ~Has("compareSlot") /\ ~Has("lowerBound")
        /\ Begin = NullResourceAddr
        /\ End = Begin
        /\ lpc \in {"idle", "returned"}
        /\ lpc = "returned" =>
              /\ result = NullResourceAddr
              /\ ~Contains(result)
              /\ GetText(result).size = 0

C2_Witness ==
    /\ HeaderReleased /\ inputs = <<>>
    /\ lpc = "returned" /\ value = <<97, 98>>

\* C3: every array emitted so far decodes to exactly the bytes of its own
\* input's file, one element per byte, whatever was loaded into the buffer
\* before; an array is emitted for every input processed, an empty file too.
C3_ArrayRoundTrip ==
    /\ pc = "data" => Len(Arrays(outputStream)) = i
    /\ \A doc \in {outputStream, outputFile, stdout} :
          \A n \in 1..Len(Arrays(doc)) :
              /\ DecodeArray(Arrays(doc)[n].body) = disk[inputs[n].filePath]
              /\ Len(Arrays(doc)[n].body) = Len(disk[inputs[n].filePath])

C3_Witness ==
    /\ pc = "data" /\ i = 2
    /\ disk[1] = <<0, 10, 255>> /\ disk[2] = <<>>
    /\ Arrays(outputStream)[2].body = <<>>

\* C4: the size of the i-th index table entry is the i-th input's declared
\* size, whatever number of bytes was loaded from its file.
C4_DeclaredSizeRecorded ==
    \A doc \in {outputStream, outputFile, stdout} :
        \A t \in 1..Len(Tables(doc)) :
            \A n \in 1..Len(Tables(doc)[t].body) :
                ParseUInt(Tables(doc)[t].body[n].size, 10) = inputs[n].size

C4_Witness ==
    /\ Len(Tables(outputStream)) = 1
    /\ Len(inputs) = 2
    /\ inputs[1].size = 26 /\ disk[1] = <<>>
    /\ inputs[2].size = 0 /\ disk[2] = <<0, 10, 255>>

\* C5: when generation aborts on a fatal error nothing reaches the final
\* output location, the error is reported and the exit status is 1; output is
\* released only after generate ran to completion.
C5_NoPartialOutput ==
    /\ exitCode = 1 =>
          /\ stdout = <<>> /\ outputFile = <<>>
          /\ stderr # <<>> /\ pc = "exit"
    /\ (Generated(stdout) # <<>> \/ outputFile # <<>>) =>
          /\ pc = "exit" /\ exitCode = 0
          /\ Target = outputStream
          /\ Target[Len(Target)].kind = "footer"

C5_Witness ==
    /\ exitCode = 1
    /\ loads = 2 /\ disk[2] = Missing
    /\ Len(Arrays(outputStream)) = 1

\* the run failed because the generator name is not registered
GeneratorNotFound ==
    exitCode = 1 /\ Len(stderr) = 3 /\ stderr[2] = "generator not found: "

\* C6 as stated: a run that fails on an unregistered generator name has read
\* neither the configuration file nor any input file and has written nothing.
C6_UnknownGeneratorBeforeAnyIO ==
    GeneratorNotFound =>
        /\ ~cfgRead
        /\ loads = 0
        /\ outputStream = <<>> /\ stdout = <<>> /\ outputFile = <<>>

\* C6, amended: a run with an unregistered generator name never loads an input
\* file and never writes generated text; when it gets to the selection (no
\* version option, an input option, a readable configuration file) it fails
\* there, after the configuration file was read and parsed, with nothing
\* written.
C6_UnknownGeneratorBeforeGeneration ==
    (argv.generator \notin Registered \cup {NoOption}) =>
        /\ loads = 0
        /\ outputStream = <<>> /\ outputFile = <<>> /\ Generated(stdout) = <<>>
        /\ pc \in {"options", "version", "parse", "create", "exit"}
        /\ (pc = "exit" /\ cfgRead /\ configFile.readable) => GeneratorNotFound
        /\ GeneratorNotFound =>
              /\ cfgRead /\ inputs = configFile.inputs
              /\ stdout = <<>>

C6_Witness ==
    /\ GeneratorNotFound
    /\ Len(inputs) = 2
    /\ disk[1] # Missing

\* C7: for a non-empty input list of length N the index table has N entries in
\* input order, and going from begin() to end() visits N records, the i-th with
\* the i-th input's key and the array emitted from the i-th input's file.
C7_TableInInputOrder ==
    (HeaderReleased /\ inputs # <<>>) =>
        /\ Len(Named("ResourcesIndex").body) = Len(inputs)
        /\ ResourcesCount = Len(inputs)
        /\ Len(Traversal) = Len(inputs)
        /\ \A n \in 1..Len(inputs) :
              /\ Traversal[n].key = inputs[n].key
              /\ Traversal[n] = Named("ResourcesIndex").body[n]
              /\ ArrayBytes(Traversal[n].bytes) = disk[inputs[n].filePath]

C7_Witness ==
    /\ HeaderReleased
    /\ Len(inputs) = 2
    /\ inputs[1].key = <<98>> /\ inputs[2].key = <<97>>
    /\ disk[1] = <<0, 10, 255>> /\ disk[2] = <<>>

\* C8 as stated: the array emitted for the input at zero-based position N is
\* named Resource<N>.
C8_ArrayNamedResourceN ==
    \A n \in 1..Len(Arrays(outputStream)) :
        Arrays(outputStream)[n].name = "Resource" \o ToString(n - 1)

\* C8, amended: the array emitted for the input at zero-based position N is
\* named R<N> (the letter R followed by N in decimal), from the ordinal alone,
\* and the N-th index entry names the same array.
C8_ArrayNamedRN ==
    /\ \A n \in 1..Len(Arrays(outputStream)) :
          Arrays(outputStream)[n].name = "R" \o ToString(n - 1)
    /\ \A t \in 1..Len(Tables(outputStream)) :
          \A n \in 1..Len(Tables(outputStream)[t].body) :
              Tables(outputStream)[t].body[n].bytes = "R" \o ToString(n - 1)

C8_Witness ==
    /\ Len(Arrays(outputStream)) = 3
    /\ Len(Tables(outputStream)) = 1
    /\ Arrays(outputStream)[3].name = "R2"

\* smallest position of [0, ResourcesCount] whose key is not less than the
\* queried key, ResourcesCount when there is none
LowerBoundPosition ==
    CHOOSE p \in 0..ResourcesCount :
        /\ p < ResourcesCount => ~LexLess(Slot(p).key, value)
        /\ \A q \in 0..(p - 1) : LexLess(Slot(q).key, value)

\* C9: on a table sorted strictly ascending and a non-null key, every iteration
\* of lowerBound's loop makes count smaller and keeps it non-negative, so the
\* loop ends with count = 0, and then first is the smallest position whose key
\* is not less than the queried key (last if there is none).
C9_LowerBoundLoop ==
    /\ [](lpc = "loop" /\ StrictlyAscending =>
            /\ value # Null
            /\ count >= 0 /\ first + count <= ResourcesCount
            /\ count = 0 => first = LowerBoundPosition)
    /\ [][lpc = "loop" /\ count > 0 => count' < count /\ count' >= 0]_vars

C9_Witness ==
    /\ lpc = "loop" /\ count = 0
    /\ Len(inputs) = 3 /\ StrictlyAscending
    /\ Cardinality(derefs) = 2
    /\ first = 1

\* C10: lowerBound and its final equality check read the key only of records
\* at positions inside [first, last); the position one past the end is never
\* dereferenced.
C10_NoPastTheEndRead ==
    HeaderReleased /\ Has("ResourcesIndex") =>
        \A p \in derefs : 0 <= p /\ p < ResourcesCount

====
